---- MODULE Spec2Model ----
(***************************************************************************)
(* The greeting library (crates/pkg-a/src/lib.rs) and the application      *)
(* entry point (crates/pkg-b/src/main.rs) as one process in which a few    *)
(* threads call greet, greet_either and main.                               *)
(*                                                                         *)
(* GREETING and APP_NAME are once_cell::sync::Lazy<String> statics.  A     *)
(* dereference of such a static (Lazy::force -> OnceCell::get_or_init) is  *)
(* modelled step by step: the fast-path check, the load of the cell's      *)
(* state word, the compare-exchange INCOMPLETE -> RUNNING, the run of the  *)
(* initializer closure, the guard's store of COMPLETE that wakes waiters,  *)
(* and the read of the value slot.                                         *)
(*                                                                         *)
(* A &str is a TLA+ string; an owned String is the record [buf |-> chars]; *)
(* an Option is a sequence of length 0 (None) or 1 (Some).                 *)
(***************************************************************************)
EXTENDS Integers, Sequences, FiniteSets, TLC

\* Number of threads of the process.
NThreads == 2

\* Total number of top-level calls the threads start.
MaxCalls == 2

Threads == 1..NThreads

\* The &str inputs the callers of greet and greet_either pass (main passes "Nix").
Names == {"", "world"}

Cells == {"GREETING", "APP_NAME"}

INCOMPLETE == "INCOMPLETE"
RUNNING == "RUNNING"
COMPLETE == "COMPLETE"

VARIABLES
    cell,         \* cell[c]: the Lazy static c: state word, value slot, closure, runs
    pc,           \* pc[t]: where thread t is
    frame,        \* frame[t]: the locals of thread t's call in progress (kept after it returns)
    stdout,       \* everything written to standard output so far
    calls,        \* number of top-level calls started
    greetCalled,  \* history: greet has been entered at least once
    returned      \* history: the <<name, result>> pairs greet has returned

vars == <<cell, pc, frame, stdout, calls, greetCalled, returned>>

----------------------------------------------------------------------------
(* Strings *)

\* "lit".to_string(): an owned String holding the literal's characters.
to_string(lit) == [buf |-> lit]

\* &s for an owned String s (Deref<Target = str>): the characters of its buffer.
AsStr(s) == s.buf

\* The closures given to Lazy::new.
InitValue(c) == IF c = "GREETING" THEN to_string("Hello") ELSE to_string("pkg-b")

\* format!("{}, {name}!", *GREETING) with g the String GREETING dereferences to.
FormatGreetNoBang(g, name) == to_string(AsStr(g) \o ", " \o name)

FormatGreetStateful(g, name) ==
    to_string(AsStr(g) \o ", " \o name \o (IF returned = {} THEN "!" ELSE "!!"))

FormatGreet(g, name) == to_string(AsStr(g) \o ", " \o name \o "!")

\* What println!("[{}] {}", app, greeting) writes: the formatted text and a newline.
MainLineNoNewline(app, greeting) == "[" \o AsStr(app) \o "] " \o AsStr(greeting)

MainLine(app, greeting) == "[" \o AsStr(app) \o "] " \o AsStr(greeting) \o "\n"

\* The name greet_either passes to greet: s for Left(s), &s for Right(s).
EitherArgDropsOwned(e) == IF e.tag = "Left" THEN e.left ELSE ""

EitherArg(e) == IF e.tag = "Left" THEN e.left ELSE AsStr(e.right)

\* The arguments of main's println!, in the order they are evaluated.
MainArgOrderSwapped == <<"greet", "APP_NAME">>

MainArgOrder == <<"APP_NAME", "greet">>

----------------------------------------------------------------------------
(* The Lazy cell *)

\* OnceCell::get's fast path: the state word says COMPLETE.
IsInitializedLoose(c) == cell[c].state # INCOMPLETE

IsInitialized(c) == cell[c].state = COMPLETE

\* The compare-exchange of the state word from the value loaded before to RUNNING.
CasSucceedsBlind(c, seen) == TRUE

CasSucceeds(c, seen) == cell[c].state = seen

\* The state word the initializer's guard stores when it is dropped.
GuardNewQueueNeverComplete(ok) == INCOMPLETE

GuardNewQueue(ok) == IF ok THEN COMPLETE ELSE INCOMPLETE

\* A waiter is woken once the state word is no longer RUNNING.
WaitReturnsNever(c) == FALSE

WaitReturns(c) == cell[c].state # RUNNING

\* What a read of the value slot yields: the value, or, for a slot not yet
\* written (undefined behaviour, unwrap_unchecked on None), any of these.
Garbage == {to_string(""), to_string("?")}

Observed(slot) == IF slot = <<>> THEN Garbage ELSE {slot[1]}

----------------------------------------------------------------------------
(* State *)

NoFrame ==
    [op |-> "none", tag |-> "none", input |-> "", name |-> <<>>,
     forcing |-> "none", seen |-> "none", ok |-> TRUE, got |-> <<>>,
     readAt |-> "none",
     app |-> <<>>, greeting |-> <<>>, result |-> <<>>, wrote |-> "",
     trace |-> <<>>]

\* Both statics already initialized when the process starts.
InitEager ==
    /\ cell = [c \in Cells |->
                 [state |-> COMPLETE, value |-> <<InitValue(c)>>, init |-> FALSE,
                  runs |-> 1]]
    /\ pc = [t \in Threads |-> "idle"]
    /\ frame = [t \in Threads |-> NoFrame]
    /\ stdout = ""
    /\ calls = 0
    /\ greetCalled = FALSE
    /\ returned = {}

\* Process start: both statics are constructed by Lazy::new, uninitialized.
Init ==
    /\ cell = [c \in Cells |->
                 [state |-> INCOMPLETE, value |-> <<>>, init |-> TRUE, runs |-> 0]]
    /\ pc = [t \in Threads |-> "idle"]
    /\ frame = [t \in Threads |-> NoFrame]
    /\ stdout = ""
    /\ calls = 0
    /\ greetCalled = FALSE
    /\ returned = {}

Go(t, label, f) ==
    /\ pc' = [pc EXCEPT ![t] = label]
    /\ frame' = [frame EXCEPT ![t] = f]

----------------------------------------------------------------------------
(* Callers *)

\* A thread calls greet(s).
CallGreet(t, s) ==
    /\ pc[t] = "idle"
    /\ calls < MaxCalls
    /\ calls' = calls + 1
    /\ Go(t, "greet", [NoFrame EXCEPT !.op = "greet", !.input = s, !.name = <<s>>])
    /\ UNCHANGED <<cell, stdout, greetCalled, returned>>

\* A thread calls greet_either(Either::Left(s)) or greet_either(Either::Right(s.to_string())).
CallGreetEither(t, tag, s) ==
    /\ pc[t] = "idle"
    /\ calls < MaxCalls
    /\ calls' = calls + 1
    /\ Go(t, "greet_either",
          [NoFrame EXCEPT !.op = "greet_either", !.tag = tag, !.input = s])
    /\ UNCHANGED <<cell, stdout, greetCalled, returned>>

\* A thread runs main().
CallMain(t) ==
    /\ pc[t] = "idle"
    /\ calls < MaxCalls
    /\ calls' = calls + 1
    /\ Go(t, "main", [NoFrame EXCEPT !.op = "main"])
    /\ UNCHANGED <<cell, stdout, greetCalled, returned>>

----------------------------------------------------------------------------
(* pkg-a *)

\* The Either value a greet_either call was given.
EitherOf(f) ==
    IF f.tag = "Left"
    THEN [tag |-> "Left", left |-> f.input]
    ELSE [tag |-> "Right", right |-> to_string(f.input)]

\* greet_either: the match, and the call of greet on the name it yields.
GreetEither(t) ==
    /\ pc[t] = "greet_either"
    /\ Go(t, "greet", [frame[t] EXCEPT !.name = <<EitherArg(EitherOf(frame[t]))>>])
    /\ UNCHANGED <<cell, stdout, calls, greetCalled, returned>>

\* greet is entered: the evaluation of *GREETING begins.
Greet(t) ==
    /\ pc[t] = "greet"
    /\ greetCalled' = TRUE
    /\ Go(t, "force", [frame[t] EXCEPT !.forcing = "GREETING", !.got = <<>>,
                                       !.seen = "none", !.readAt = "none",
                                       !.trace = Append(@, "greet")])
    /\ UNCHANGED <<cell, stdout, calls, returned>>

\* Where a thread goes once the static it was dereferencing has been read as v
\* (readAt records the state word at the time of the read).
AfterDeref(f, v) ==
    LET g == [f EXCEPT !.got = <<v>>, !.readAt = cell[f.forcing].state] IN
    IF f.forcing = "GREETING"
    THEN [label |-> "format", frame |-> g]
    ELSE [label |-> "main",
          frame |-> [g EXCEPT !.app = <<v>>, !.trace = Append(@, "APP_NAME")]]

\* Lazy::force: the fast path (the cell is initialized: read it), else initialize.
Force(t) ==
    /\ pc[t] = "force"
    /\ LET c == frame[t].forcing IN
         IF IsInitialized(c)
         THEN \E v \in Observed(cell[c].value) :
                 LET n == AfterDeref(frame[t], v) IN Go(t, n.label, n.frame)
         ELSE Go(t, "initialize", frame[t])
    /\ UNCHANGED <<cell, stdout, calls, greetCalled, returned>>

\* initialize_or_wait: load the state word.
Initialize(t) ==
    /\ pc[t] = "initialize"
    /\ Go(t, "match", [frame[t] EXCEPT !.seen = cell[frame[t].forcing].state])
    /\ UNCHANGED <<cell, stdout, calls, greetCalled, returned>>

\* initialize_or_wait: act on the state word loaded.
Match(t) ==
    /\ pc[t] = "match"
    /\ LET c == frame[t].forcing
           seen == frame[t].seen
       IN  CASE seen = COMPLETE ->
                  /\ Go(t, "get_unchecked", frame[t])
                  /\ UNCHANGED cell
             [] seen = INCOMPLETE ->
                  IF CasSucceeds(c, seen)
                  THEN /\ cell' = [cell EXCEPT ![c].state = RUNNING,
                                               ![c].runs = @ + 1]
                       /\ Go(t, "run_init", frame[t])
                  ELSE /\ Go(t, "match", [frame[t] EXCEPT !.seen = cell[c].state])
                       /\ UNCHANGED cell
             [] seen = RUNNING ->
                  /\ Go(t, "wait", frame[t])
                  /\ UNCHANGED cell
    /\ UNCHANGED <<stdout, calls, greetCalled, returned>>

\* wait: parked until the initializer's guard wakes the waiters, then reload.
Wait(t) ==
    /\ pc[t] = "wait"
    /\ WaitReturns(frame[t].forcing)
    /\ Go(t, "match", [frame[t] EXCEPT !.seen = cell[frame[t].forcing].state])
    /\ UNCHANGED <<cell, stdout, calls, greetCalled, returned>>

\* The closure of Lazy::force: take the initializer and run it into the slot,
\* or panic when it was taken before ("previously been poisoned").
RunInit(t) ==
    /\ pc[t] = "run_init"
    /\ LET c == frame[t].forcing IN
         IF cell[c].init
         THEN /\ cell' = [cell EXCEPT ![c].init = FALSE,
                                      ![c].value = <<InitValue(c)>>]
              /\ Go(t, "guard_drop", [frame[t] EXCEPT !.ok = TRUE])
         ELSE /\ UNCHANGED cell
              /\ Go(t, "guard_drop", [frame[t] EXCEPT !.ok = FALSE])
    /\ UNCHANGED <<stdout, calls, greetCalled, returned>>

\* The guard is dropped: the state word is stored and the waiters are woken.
GuardDrop(t) ==
    /\ pc[t] = "guard_drop"
    /\ cell' = [cell EXCEPT ![frame[t].forcing].state = GuardNewQueue(frame[t].ok)]
    /\ Go(t, IF frame[t].ok THEN "get_unchecked" ELSE "panicked", frame[t])
    /\ UNCHANGED <<stdout, calls, greetCalled, returned>>

\* get_unchecked: read the value slot.
GetUnchecked(t) ==
    /\ pc[t] = "get_unchecked"
    /\ \E v \in Observed(cell[frame[t].forcing].value) :
          LET n == AfterDeref(frame[t], v) IN Go(t, n.label, n.frame)
    /\ UNCHANGED <<cell, stdout, calls, greetCalled, returned>>

\* greet's format! and its return, to main or to the caller.
Format(t) ==
    /\ pc[t] = "format"
    /\ LET f == frame[t]
           r == FormatGreet(f.got[1], f.name[1])
       IN  /\ returned' = returned \cup {<<f.name[1], AsStr(r)>>}
           /\ IF f.op = "main"
              THEN Go(t, "main", [f EXCEPT !.greeting = <<r>>])
              ELSE Go(t, "idle", [f EXCEPT !.result = <<r>>])
    /\ UNCHANGED <<cell, stdout, calls, greetCalled>>

----------------------------------------------------------------------------
(* pkg-b *)

\* The arguments of main's println! that are not evaluated yet, in order.
MainTodo(f) ==
    SelectSeq(MainArgOrder,
              LAMBDA a : IF a = "APP_NAME" THEN f.app = <<>> ELSE f.greeting = <<>>)

\* main: evaluate the next argument of println!, or go on to the write.
Main(t) ==
    /\ pc[t] = "main"
    /\ LET f == frame[t]
           todo == MainTodo(f)
       IN  IF todo = <<>>
           THEN Go(t, "println", f)
           ELSE IF todo[1] = "APP_NAME"
                THEN Go(t, "force", [f EXCEPT !.forcing = "APP_NAME", !.got = <<>>,
                                                 !.seen = "none", !.readAt = "none"])
                ELSE Go(t, "greet", [f EXCEPT !.name = <<"Nix">>])
    /\ UNCHANGED <<cell, stdout, calls, greetCalled, returned>>

\* println!: the line is written to standard output, and main returns.
Println(t) ==
    /\ pc[t] = "println"
    /\ LET f == frame[t]
           line == MainLine(f.app[1], f.greeting[1])
       IN  /\ stdout' = stdout \o line
           /\ Go(t, "idle", [f EXCEPT !.wrote = @ \o line,
                                      !.trace = Append(@, "write")])
    /\ UNCHANGED <<cell, calls, greetCalled, returned>>

----------------------------------------------------------------------------
(* Specifications *)

\* A step of thread t inside greet.
GreetStep(t) ==
    \/ Greet(t)
    \/ Force(t)
    \/ Initialize(t)
    \/ Match(t)
    \/ Wait(t)
    \/ RunInit(t)
    \/ GuardDrop(t)
    \/ GetUnchecked(t)
    \/ Format(t)

\* A step of a call in progress on thread t.
Step(t) ==
    \/ GreetEither(t)
    \/ GreetStep(t)
    \/ Main(t)
    \/ Println(t)

Next ==
    \E t \in Threads :
        \/ \E s \in Names : CallGreet(t, s)
        \/ \E s \in Names : \E tag \in {"Left", "Right"} : CallGreetEither(t, tag, s)
        \/ CallMain(t)
        \/ Step(t)

Spec == Init /\ [][Next]_vars

\* Every thread that is in a call keeps being scheduled.
FairSpec == Spec /\ \A t \in Threads : WF_vars(Step(t))

\* The library alone: the threads only call greet, and keep being scheduled.
GreetNext ==
    \E t \in Threads :
        \/ \E s \in Names : CallGreet(t, s)
        \/ GreetStep(t)

GreetFairSpec ==
    Init /\ [][GreetNext]_vars /\ \A t \in Threads : WF_vars(GreetStep(t))

----------------------------------------------------------------------------
(* Properties *)

\* Thread t's last call has returned to its caller.
Returned(t) == pc[t] = "idle" /\ frame[t].op # "none"

\* Thread t's last call was op and has returned.
ReturnedFrom(t, op) == Returned(t) /\ frame[t].op = op

\* The line main writes.
Line == "[pkg-b] Hello, Nix!\n"

RECURSIVE Rep(_)
\* n copies of Line.
Rep(n) == IF n = 0 THEN "" ELSE Rep(n - 1) \o Line

IsPrefix(a, b) == Len(a) <= Len(b) /\ a = SubSeq(b, 1, Len(a))

\* C1: every call of greet(s), from any caller, returns exactly
\* "Hello, " followed by s followed by "!".
C1_GreetIsHelloNameBang ==
    /\ \A p \in returned : p[2] = "Hello, " \o p[1] \o "!"
    /\ \A t \in Threads :
          ReturnedFrom(t, "greet") =>
             frame[t].result = <<to_string("Hello, " \o frame[t].input \o "!")>>

C1_Witness ==
    \E t \in Threads :
       /\ ReturnedFrom(t, "greet")
       /\ frame[t].input = "world"
       /\ frame[t].result = <<to_string("Hello, world!")>>

\* C2: a run of main writes nothing until its single write, has written exactly
\* the line "[pkg-b] Hello, Nix!" (and its newline) when it returns, and does
\* return; no other call writes, so standard output holds only such lines.
C2_MainWritesOneLine ==
    /\ \A t \in Threads :
          /\ frame[t].op = "main" =>
                /\ pc[t] # "panicked"
                /\ pc[t] # "idle" => frame[t].wrote = ""
                /\ pc[t] = "idle" => frame[t].wrote = Line
          /\ frame[t].op # "main" => frame[t].wrote = ""
    /\ \E k \in 0..MaxCalls : stdout = Rep(k)

C2_Witness ==
    \E t \in Threads :
       /\ ReturnedFrom(t, "main")
       /\ frame[t].wrote = "[pkg-b] Hello, Nix!\n"
       /\ stdout = "[pkg-b] Hello, Nix!\n"

\* C3: with threads calling greet concurrently, the initializer of GREETING is
\* run at most once, and a thread reads GREETING's slot only when the state
\* word is COMPLETE, after exactly one run, and reads the initialized value.
C3_OneInitializerReadsAfterComplete ==
    /\ cell["GREETING"].runs <= 1
    /\ \A t \in Threads :
          (frame[t].forcing = "GREETING" /\ frame[t].got # <<>>) =>
             /\ frame[t].readAt = COMPLETE
             /\ cell["GREETING"].runs = 1
             /\ frame[t].got = <<to_string("Hello")>>
             /\ frame[t].got = cell["GREETING"].value

C3_Witness ==
    \E t1, t2 \in Threads :
       /\ t1 # t2
       /\ frame[t1].forcing = "GREETING" /\ frame[t2].forcing = "GREETING"
       /\ pc[t1] = "format" /\ frame[t1].seen = INCOMPLETE
       /\ pc[t2] = "format" /\ frame[t2].seen = COMPLETE

\* The value each static is initialized to.
Expected(c) == IF c = "GREETING" THEN "Hello" ELSE "pkg-b"

\* C4: over any calls of greet, greet_either and main, each static's initializer
\* runs at most once, an initialized static holds "Hello" (GREETING) or "pkg-b"
\* (APP_NAME), and once initialized the static never changes again.
C4_InitializedOnceNeverMutated ==
    /\ [](\A c \in Cells :
             /\ cell[c].runs <= 1
             /\ cell[c].state = COMPLETE => cell[c].value = <<to_string(Expected(c))>>)
    /\ [][\A c \in Cells : cell[c].state = COMPLETE => cell'[c] = cell[c]]_vars

C4_Witness ==
    /\ \A c \in Cells : cell[c].state = COMPLETE /\ cell[c].runs = 1
    /\ calls = MaxCalls
    /\ \A t \in Threads : Returned(t)
    /\ \E t \in Threads : frame[t].op = "main"
    /\ \E t \in Threads : frame[t].op = "greet_either"

\* C5: greet_either on Left(s) and on Right(s) returns what greet(s) returns:
\* any two returned calls of greet or greet_either on the same s, at least one
\* of them greet_either, have the same result.
C5_GreetEitherAgreesWithGreet ==
    \A t1, t2 \in Threads :
       (/\ ReturnedFrom(t1, "greet_either")
        /\ ReturnedFrom(t2, "greet") \/ ReturnedFrom(t2, "greet_either")
        /\ frame[t1].input = frame[t2].input)
       => /\ frame[t1].result # <<>>
          /\ frame[t1].result = frame[t2].result

C5_Witness ==
    \E t1, t2 \in Threads :
       /\ ReturnedFrom(t1, "greet_either") /\ frame[t1].tag = "Right"
       /\ ReturnedFrom(t2, "greet")
       /\ frame[t1].input = "world" /\ frame[t2].input = "world"
       /\ frame[t1].result = frame[t2].result

\* C6: all calls of greet with the same name return the same string, however
\* many calls came before and whichever call initialized GREETING.
C6_SameInputSameOutput ==
    \A p, q \in returned : p[1] = q[1] => p[2] = q[2]

C6_Witness ==
    \E t1, t2 \in Threads :
       /\ t1 # t2
       /\ ReturnedFrom(t1, "greet") /\ ReturnedFrom(t2, "greet")
       /\ frame[t1].input = frame[t2].input
       /\ frame[t1].seen = INCOMPLETE
       /\ frame[t2].seen = "none"
       /\ calls = MaxCalls

\* C7: no call ever panics, every returned greet holds a string, and
\* greet("") returns "Hello, !".
C7_GreetNeverFails ==
    \A t \in Threads :
       /\ pc[t] # "panicked"
       /\ ReturnedFrom(t, "greet") =>
             /\ Len(frame[t].result) = 1
             /\ frame[t].input = "" => AsStr(frame[t].result[1]) = "Hello, !"

C7_Witness ==
    \E t \in Threads :
       /\ ReturnedFrom(t, "greet")
       /\ frame[t].input = ""
       /\ frame[t].result = <<to_string("Hello, !")>>

\* C8: in a run of main, APP_NAME is read, then greet is called, then the line
\* is written, in this order; at the write both statics are initialized.
C8_MainOrder ==
    \A t \in Threads :
       frame[t].op = "main" =>
          /\ IsPrefix(frame[t].trace, <<"APP_NAME", "greet", "write">>)
          /\ (pc[t] = "println" \/ frame[t].wrote # "") =>
                /\ Len(frame[t].trace) >= 2
                /\ \A c \in Cells : cell[c].state = COMPLETE

C8_Witness ==
    \E t \in Threads :
       /\ ReturnedFrom(t, "main")
       /\ frame[t].trace = <<"APP_NAME", "greet", "write">>

\* Some thread is inside greet.
InGreet(t) ==
    frame[t].forcing = "GREETING"
    /\ pc[t] \in {"force", "initialize", "match", "wait", "run_init", "guard_drop",
                  "get_unchecked", "format"}

\* C9: GREETING is uninitialized as long as greet has not been called; it is
\* initialized by a greet call that no completed greet call precedes; it is
\* initialized once a greet call has returned; and later steps leave it as it is.
C9_GreetingLazyThenFrozen ==
    /\ [](~greetCalled =>
             cell["GREETING"] =
                [state |-> INCOMPLETE, value |-> <<>>, init |-> TRUE, runs |-> 0])
    /\ [](returned # {} => cell["GREETING"].state = COMPLETE)
    /\ [][cell["GREETING"].state = INCOMPLETE /\ cell'["GREETING"].state # INCOMPLETE
            => returned = {} /\ \E t \in Threads : InGreet(t) /\ pc'[t] = "run_init"]_vars
    /\ [][cell["GREETING"].state = COMPLETE
            => cell'["GREETING"] = cell["GREETING"]]_vars

C9_Witness ==
    /\ cell["GREETING"].state = COMPLETE
    /\ Cardinality(returned) >= 2
    /\ \E t \in Threads :
          /\ ReturnedFrom(t, "greet_either")
          /\ frame[t].seen = "none"

\* C10: under fair scheduling every call that was started returns, also the
\* call of a thread that waits for another thread's initialization of GREETING.
C10_EveryCallReturns ==
    \A t \in Threads : (pc[t] # "idle") ~> (pc[t] = "idle")

C10_Witness ==
    \E t1, t2 \in Threads :
       /\ pc[t1] = "wait" /\ frame[t1].forcing = "GREETING"
       /\ pc[t2] = "run_init" /\ frame[t2].forcing = "GREETING"

====
